---- MODULE Spec2Model ----
(***************************************************************************)
(* Model of packages/step/src/step.stack.ts (StepFunctionStack): the fold  *)
(* over the function registry that builds a Step Functions chain, the      *)
(* registration of the state machine, and the run of the resulting state   *)
(* machine against the system table.                                       *)
(***************************************************************************)
EXTENDS Integers, Sequences, FiniteSets, TLC

\* ---------------------------------------------------------------- bounds
MaxRegistry == 3
MaxTimeout == 1
MaxSchedule == 1

\* ------------------------------------------------------------- constants
Fns == {"fnA", "fnB", "fnC"}
StackId == "TestStack"
Tenant == "test-tenant"
MachineNames == {"TestStateMachine", "OtherStateMachine"}
SuccessSentinel == "true"
\* the timeout (minutes) the test suite registers its state machine with
TestTimeout == 5
Timeouts == (-1..MaxTimeout) \cup {TestTimeout}
Payloads == {"none", "true", "false"}
RuleNames == {"FirstRule", "SecondRule"}
Schedules == -1..MaxSchedule

VARIABLES
    fnRegistry,   \* config.fnRegistry: the entries in insertion order
    pc,           \* position of the constructor: building / built / failed
    idx,          \* forEach position: index of the next entry to process
    children,     \* construct ids already used in the scope of the stack
    items,        \* this.items: keys set so far, mapped to state ids
    states,       \* the state objects created so far, by id
    localChain,   \* processRegistry's localChain
    chainLink,    \* this.chainLink
    stateMachine, \* this.stateMachine
    error,        \* the error last thrown to the caller, or "none"
    exec,         \* the run of the registered state machine
    table,        \* payload of the system table's record per function name
    thisChain,    \* this.chain: a chain the caller built from the stack
    machines,     \* the StateMachine constructs created in the stack
    rules         \* the Rule constructs created in the stack, with target

vars == <<fnRegistry, pc, idx, children, items, states, localChain,
          chainLink, stateMachine, error, exec, table, thisChain, machines,
          rules>>

\* ------------------------------------------------------------ state ids
NoState == <<"none", "none">>
InitialId == <<"Step One For:", StackId>>
SecondInitialId == <<"Step Two For:", StackId>>
InvokeId(f) == <<"Invoke", f>>
CheckId(f) == <<"Check Status", f>>
ChoiceId(f) == <<"Is Successful?", f>>
SkipId(f) == <<"Skip", f>>

\* ----------------------------------------------------- registry entries
Entries == [fn : Fns, repeat : BOOLEAN]

RECURSIVE SeqsUpTo(_)
SeqsUpTo(n) ==
    IF n = 0 THEN {<<>>}
    ELSE LET shorter == SeqsUpTo(n - 1)
         IN  shorter \cup
             {Append(s, e) : s \in {t \in shorter : Len(t) = n - 1}, e \in Entries}

Registries == SeqsUpTo(MaxRegistry)

\* --------------------------------------------------------- state objects
PassState(id) ==
    [id |-> id, kind |-> "Pass", fn |-> id[2], next |-> NoState,
     when |-> <<>>, otherwise |-> NoState, key |-> <<>>]

LambdaInvoke(f) ==
    [id |-> InvokeId(f), kind |-> "LambdaInvoke", fn |-> f, next |-> NoState,
     when |-> <<>>, otherwise |-> NoState, key |-> <<>>]

DynamoGetItem(f) ==
    [id |-> CheckId(f), kind |-> "DynamoGetItem", fn |-> f, next |-> NoState,
     when |-> <<>>, otherwise |-> NoState, key |-> <<f, Tenant>>]

\* the choice without its skip rule: every run takes the default
ChoiceState_NoWhen(f) ==
    [id |-> ChoiceId(f), kind |-> "Choice", fn |-> f, next |-> NoState,
     when |-> <<>>, otherwise |-> InvokeId(f), key |-> <<>>]

\* new Choice(..).when(stringEquals(path, 'true'), Skip).otherwise(Invoke)
ChoiceState(f) ==
    [id |-> ChoiceId(f), kind |-> "Choice", fn |-> f, next |-> NoState,
     when |-> <<[equals |-> SuccessSentinel, target |-> SkipId(f)]>>,
     otherwise |-> InvokeId(f), key |-> <<>>]

\* endStates of a chainable: a Choice has none, every other state has itself
EndStatesOf(s) == IF s.kind = "Choice" THEN <<>> ELSE <<s.id>>

\* Chain.start(state)
ChainStart(s) ==
    [startState |-> s.id, endStates |-> EndStatesOf(s), lastAdded |-> s.id]

\* Chain.next that leaves the end states of the chain without a successor
LinkEnds_Unlinked(st, ends, target) == st

\* the loop of Chain.next: every end state of the chain gets `target` as next
LinkEnds(st, ends, target) ==
    [i \in DOMAIN st |->
        IF \E k \in 1..Len(ends) : ends[k] = i
        THEN [st[i] EXCEPT !.next = target]
        ELSE st[i]]

\* the chain returned by Chain.next(next)
ChainNext(chain, s) ==
    [startState |-> chain.startState, endStates |-> EndStatesOf(s),
     lastAdded |-> s.id]

\* steps named after the entry's place in the registry (its key)
FunctionName_Key(reg, i) == ToString(i)

\* lambda.functionName of the entry's function: the name its steps are built from
FunctionName(reg, i) == reg[i].fn

\* processRegistry that guards every entry
UseSingleRun_Always(item) == TRUE

\* processRegistry's test of an entry
UseSingleRun(item) == item.repeat

NoChain == [startState |-> NoState, endStates |-> <<>>, lastAdded |-> NoState]
NoMachine == [name |-> "none", startState |-> NoState, timeout |-> -1,
              timeoutSeconds |-> -1, definition |-> <<>>]
IdleExec == [status |-> "idle", cur |-> NoState, prev |-> NoState,
             cause |-> "none", dynamodbResult |-> "unset",
             isObject |-> TRUE, invoked |-> [f \in Fns |-> 0]]

Init ==
    /\ fnRegistry \in Registries
    /\ pc = "new"
    /\ idx = 1
    /\ children = {}
    /\ items = <<>>
    /\ states = <<>>
    /\ localChain = NoChain
    /\ chainLink = NoChain
    /\ stateMachine = NoMachine
    /\ error = "none"
    /\ exec = IdleExec
    /\ table = [f \in Fns |-> "none"]
    /\ thisChain = NoChain
    /\ machines = <<>>
    /\ rules = <<>>

\* constructor, up to the call of processRegistry
Construct ==
    /\ pc = "new"
    /\ pc' = "building"
    /\ children' = {InitialId}
    /\ items' = <<>>
    /\ states' = (InitialId :> PassState(InitialId))
    /\ localChain' = ChainStart(PassState(InitialId))
    /\ UNCHANGED <<fnRegistry, idx, chainLink, stateMachine, error, exec, table,
                   thisChain, machines, rules>>

\* Map.set(k, v)
Put(m, k, v) == [x \in (DOMAIN m) \cup {k} |-> IF x = k THEN v ELSE m[x]]

\* a newly constructed state object joins the objects of the stack
AddState(st, s) == [x \in (DOMAIN st) \cup {s.id} |-> IF x = s.id THEN s ELSE st[x]]

RECURSIVE AddStates(_, _)
AddStates(st, ss) ==
    IF ss = <<>> THEN st ELSE AddStates(AddState(st, Head(ss)), Tail(ss))

\* an error thrown out of processRegistry: out of the constructor (no stack
\* object is returned) or, in a later call, to the caller of the method
Throw(e) ==
    /\ pc' = IF pc = "building" THEN "failed" ELSE "built"
    /\ error' = e
    /\ idx' = idx
    /\ chainLink' = chainLink

\* the forEach callback returned: on to the next entry
Continue == pc' = pc /\ error' = error /\ idx' = idx + 1 /\ chainLink' = chainLink

\* forEach callback, else branch: localChain.next(this.registerFn(item.fn))
ProcessDirect ==
    /\ pc \in {"building", "rebuilding"}
    /\ idx <= Len(fnRegistry)
    /\ ~UseSingleRun(fnRegistry[idx])
    /\ LET f == FunctionName(fnRegistry, idx)
           inv == LambdaInvoke(f)
       IN  IF inv.id \in children
           THEN /\ Throw("DuplicateConstructId")
                /\ UNCHANGED <<children, items, states, localChain>>
           ELSE /\ children' = children \cup {inv.id}
                /\ items' = Put(items, <<"", f>>, inv.id)
                /\ IF localChain.endStates = <<>>
                   THEN /\ Throw("CannotAddToChain")
                        /\ states' = AddState(states, inv)
                        /\ localChain' = localChain
                   ELSE /\ Continue
                        /\ states' = LinkEnds(AddState(states, inv),
                                              localChain.endStates, inv.id)
                        /\ localChain' = ChainNext(localChain, inv)
    /\ UNCHANGED <<fnRegistry, stateMachine, exec, table, thisChain,
                   machines, rules>>

\* forEach callback, if branch: this.registerSingleRunFn(localChain, item.fn)
ProcessSingleRun ==
    /\ pc \in {"building", "rebuilding"}
    /\ idx <= Len(fnRegistry)
    /\ UseSingleRun(fnRegistry[idx])
    /\ LET f == FunctionName(fnRegistry, idx)
           chk == DynamoGetItem(f)
           cho == ChoiceState(f)
           skp == PassState(SkipId(f))
           inv == LambdaInvoke(f)
           bare == [cho EXCEPT !.when = <<>>, !.otherwise = NoState]
           half == [cho EXCEPT !.otherwise = NoState]
           items1 == Put(items, <<"check", f>>, chk.id)
           items2 == Put(items1, <<"", f>>, inv.id)
           items3 == Put(items2, <<"choose", f>>, cho.id)
           all == AddStates(states, <<chk, cho, skp, inv>>)
           linked == LinkEnds(all, localChain.endStates, chk.id)
       IN  CASE chk.id \in children ->
                 /\ Throw("DuplicateConstructId")
                 /\ UNCHANGED <<children, items, states, localChain>>
             [] chk.id \notin children /\ cho.id \in children ->
                 /\ Throw("DuplicateConstructId")
                 /\ children' = children \cup {chk.id}
                 /\ items' = items1
                 /\ states' = AddState(states, chk)
                 /\ localChain' = localChain
             [] {chk.id, cho.id} \cap children = {} /\ skp.id \in children ->
                 /\ Throw("DuplicateConstructId")
                 /\ children' = children \cup {chk.id, cho.id}
                 /\ items' = items1
                 /\ states' = AddStates(states, <<chk, bare>>)
                 /\ localChain' = localChain
             [] {chk.id, cho.id, skp.id} \cap children = {} /\ inv.id \in children ->
                 /\ Throw("DuplicateConstructId")
                 /\ children' = children \cup {chk.id, cho.id, skp.id}
                 /\ items' = items1
                 /\ states' = AddStates(states, <<chk, half, skp>>)
                 /\ localChain' = localChain
             [] OTHER ->
                 /\ children' = children \cup {chk.id, cho.id, skp.id, inv.id}
                 /\ items' = items3
                 /\ IF localChain.endStates = <<>>
                    THEN /\ Throw("CannotAddToChain")
                         /\ states' = all
                         /\ localChain' = localChain
                    ELSE /\ Continue
                         /\ states' = LinkEnds(linked, EndStatesOf(chk), cho.id)
                         /\ localChain' = ChainNext(ChainNext(localChain, chk), cho)
    /\ UNCHANGED <<fnRegistry, stateMachine, exec, table, thisChain,
                   machines, rules>>

\* processRegistry returns localChain; the constructor stores it in chainLink
FinishBuild ==
    /\ pc = "building"
    /\ idx > Len(fnRegistry)
    /\ pc' = "built"
    /\ chainLink' = localChain
    /\ UNCHANGED <<fnRegistry, idx, children, items, states, localChain,
                   stateMachine, error, exec, table, thisChain,
                   machines, rules>>

MachineId(name) == <<"StateMachine", name>>

\* the timeout taken as seconds
DurationMinutes_AsSeconds(timeout) == timeout

\* Duration.minutes(timeout) as rendered into TimeoutSeconds
DurationMinutes(timeout) == timeout * 60

\* successors of a state object in a collection of state objects
GraphSucc(st, id) ==
    ({st[id].next, st[id].otherwise}
        \cup {st[id].when[k].target : k \in 1..Len(st[id].when)})
    \ {NoState}

RECURSIVE GraphReach(_, _, _)
GraphReach(st, frontier, seen) ==
    IF frontier = {} THEN seen
    ELSE LET new == (UNION {GraphSucc(st, j) : j \in frontier}) \ seen
         IN  GraphReach(st, new, seen \cup new)

\* the definition rendered from the graph of a start state: the states that
\* can be reached from it, as they are at the time of rendering
RenderGraph(st, start) ==
    [id \in GraphReach(st, {start}, {start}) |-> st[id]]

\* a definition that is rendered from the state objects whenever it is read
DefinitionOf_Live(m) ==
    IF m.startState = NoState THEN <<>> ELSE RenderGraph(states, m.startState)

\* the definition of a state machine: rendered when the machine is created
DefinitionOf(m) == m.definition

\* the start state already belongs to the graph of a state machine
GraphBound(start) ==
    \E n \in DOMAIN machines : start \in DOMAIN machines[n].definition

\* the chains of the stack a caller can pass as definition
Definitions ==
    {chainLink} \cup (IF thisChain = NoChain THEN {} ELSE {thisChain})

\* registerStateMachine(definition, name, timeout)
RegisterStateMachine ==
    /\ pc = "built"
    /\ \E name \in MachineNames, timeout \in Timeouts, definition \in Definitions :
          CASE timeout < 0 ->
                 /\ error' = "NegativeDuration"
                 /\ UNCHANGED <<children, stateMachine, machines>>
            [] timeout >= 0 /\ MachineId(name) \in children ->
                 /\ error' = "DuplicateConstructId"
                 /\ UNCHANGED <<children, stateMachine, machines>>
            [] timeout >= 0 /\ MachineId(name) \notin children
                            /\ GraphBound(definition.startState) ->
                 /\ error' = "StateInAnotherGraph"
                 /\ children' = children \cup {MachineId(name)}
                 /\ UNCHANGED <<stateMachine, machines>>
            [] OTHER ->
                 LET m == [name |-> name,
                           startState |-> definition.startState,
                           timeout |-> timeout,
                           timeoutSeconds |-> DurationMinutes(timeout),
                           definition |-> RenderGraph(states, definition.startState)]
                 IN  /\ error' = "none"
                     /\ children' = children \cup {MachineId(name)}
                     /\ stateMachine' = m
                     /\ machines' = Put(machines, name, m)
    /\ UNCHANGED <<fnRegistry, pc, idx, items, states, localChain, chainLink,
                   exec, table, thisChain, rules>>

\* ------------------------------------------------ the run of the machine
\* the run moves on to `target`, or ends when the state has no successor
MoveTo(e, target) ==
    [e EXCEPT !.prev = e.cur,
              !.cur = target,
              !.status = IF target = NoState THEN "succeeded" ELSE "running"]

FailWith(e, cause) ==
    [e EXCEPT !.prev = e.cur, !.cur = NoState, !.status = "failed",
              !.cause = cause]

\* the field the condition reads, $.dynamodbResult.Item.payload.S, exists
PathPresent(result) == result \notin {"none", "unset"}

\* a choice that never takes a rule
ChoiceTarget_AlwaysOtherwise(s, result) ==
    IF ~PathPresent(result) THEN NoState ELSE s.otherwise

\* a choice whose rule tests for inequality
ChoiceTarget_Negated(s, result) ==
    IF ~PathPresent(result) THEN NoState
    ELSE IF \E k \in 1..Len(s.when) : s.when[k].equals # result
         THEN s.when[1].target
         ELSE s.otherwise

\* Choice: the first rule whose stringEquals holds, else the default;
\* NoState when the path the rule reads is absent from the state data
ChoiceTarget(s, result) ==
    IF ~PathPresent(result) THEN NoState
    ELSE IF \E k \in 1..Len(s.when) : s.when[k].equals = result
         THEN s.when[CHOOSE k \in 1..Len(s.when) :
                        /\ s.when[k].equals = result
                        /\ \A j \in 1..(k - 1) : s.when[j].equals # result].target
         ELSE s.otherwise

\* the state the run is at, in the definition of the machine
Current == DefinitionOf(stateMachine)[exec.cur]

Running(kind) ==
    /\ exec.status = "running"
    /\ Current.kind = kind

\* an execution of the registered state machine starts at its start state
StartExecution ==
    /\ stateMachine # NoMachine
    /\ exec.status # "running"
    /\ \E tbl \in [Fns -> Payloads] : table' = tbl
    /\ exec' = [IdleExec EXCEPT !.status = "running",
                                !.cur = stateMachine.startState]
    /\ UNCHANGED <<fnRegistry, pc, idx, children, items, states, localChain,
                   chainLink, stateMachine, error, thisChain, machines,
                   rules>>

StepPass ==
    /\ Running("Pass")
    /\ exec' = MoveTo(exec, Current.next)
    /\ UNCHANGED <<fnRegistry, pc, idx, children, items, states, localChain,
                   chainLink, stateMachine, error, table, thisChain,
                   machines, rules>>

\* DynamoGetItem with resultPath $.dynamodbResult
StepGetItem ==
    /\ Running("DynamoGetItem")
    /\ LET s == Current
       IN  exec' = IF ~exec.isObject
                   THEN FailWith(exec, "States.ResultPathMatchFailure")
                   ELSE MoveTo([exec EXCEPT !.dynamodbResult = table[s.key[1]]],
                               s.next)
    /\ UNCHANGED <<fnRegistry, pc, idx, children, items, states, localChain,
                   chainLink, stateMachine, error, table, thisChain,
                   machines, rules>>

StepChoice ==
    /\ Running("Choice")
    /\ LET target == ChoiceTarget(Current, exec.dynamodbResult)
       IN  exec' = IF target = NoState
                   THEN FailWith(exec, "States.Runtime")
                   ELSE MoveTo(exec, target)
    /\ UNCHANGED <<fnRegistry, pc, idx, children, items, states, localChain,
                   chainLink, stateMachine, error, table, thisChain,
                   machines, rules>>

\* LambdaInvoke with outputPath $.Payload: the state data becomes the payload
StepInvoke ==
    /\ Running("LambdaInvoke")
    /\ LET s == Current
           called == [exec EXCEPT !.invoked[s.fn] = @ + 1]
       IN  \E outcome \in {"object", "scalar", "error"} :
              exec' = IF outcome = "error"
                      THEN FailWith(called, "States.TaskFailed")
                      ELSE MoveTo([called EXCEPT !.dynamodbResult = "unset",
                                                 !.isObject = (outcome = "object")],
                                  s.next)
    /\ UNCHANGED <<fnRegistry, pc, idx, children, items, states, localChain,
                   chainLink, stateMachine, error, table, thisChain,
                   machines, rules>>

\* ------------------------------- operations of the stack after construction
\* the chain extension of the class documentation:
\* this.chain = this.chainLink.next(this.registerFn(lambda))
ExtendChain ==
    /\ pc = "built"
    /\ \E f \in Fns :
          LET inv == LambdaInvoke(f)
              ends == chainLink.endStates
          IN  IF inv.id \in children
              THEN /\ error' = "DuplicateConstructId"
                   /\ UNCHANGED <<children, items, states, thisChain>>
              ELSE /\ children' = children \cup {inv.id}
                   /\ items' = Put(items, <<"", f>>, inv.id)
                   /\ CASE ends = <<>> ->
                             /\ error' = "CannotAddToChain"
                             /\ states' = AddState(states, inv)
                             /\ UNCHANGED thisChain
                        [] ends # <<>> /\ \E k \in 1..Len(ends) :
                                             states[ends[k]].next # NoState ->
                             /\ error' = "StateAlreadyHasNext"
                             /\ states' = AddState(states, inv)
                             /\ UNCHANGED thisChain
                        [] OTHER ->
                             /\ error' = "none"
                             /\ states' = LinkEnds(AddState(states, inv), ends, inv.id)
                             /\ thisChain' = ChainNext(chainLink, inv)
    /\ UNCHANGED <<fnRegistry, pc, idx, localChain, chainLink, stateMachine,
                   exec, table, machines, rules>>

\* a further call of the builder on the stack, with an initial step of its own:
\* this.chain = this.processRegistry(Chain.start(new Pass(this, id)), fnRegistry)
StartReprocess ==
    /\ pc = "built"
    /\ IF SecondInitialId \in children
       THEN /\ error' = "DuplicateConstructId"
            /\ UNCHANGED <<pc, idx, children, states, localChain>>
       ELSE /\ error' = "none"
            /\ pc' = "rebuilding"
            /\ idx' = 1
            /\ children' = children \cup {SecondInitialId}
            /\ states' = AddState(states, PassState(SecondInitialId))
            /\ localChain' = ChainStart(PassState(SecondInitialId))
    /\ UNCHANGED <<fnRegistry, items, chainLink, stateMachine, exec, table,
                   thisChain, machines, rules>>

\* the further call of processRegistry returns its chain to the caller
FinishReprocess ==
    /\ pc = "rebuilding"
    /\ idx > Len(fnRegistry)
    /\ pc' = "built"
    /\ thisChain' = localChain
    /\ UNCHANGED <<fnRegistry, idx, children, items, states, localChain,
                   chainLink, stateMachine, error, exec, table, machines, rules>>

RuleId(name) == <<"Rule", name>>

\* a trigger that takes another state machine of the stack when there is one
TriggerTarget_Other(sm) ==
    IF \E n \in DOMAIN machines : n # sm.name
    THEN CHOOSE n \in DOMAIN machines : n # sm.name
    ELSE sm.name

\* the target registerTrigger gives the rule: this.stateMachine
TriggerTarget(sm) == sm.name

\* registerTrigger(name, scheduleInMinutes)
RegisterTrigger ==
    /\ pc = "built"
    /\ \E name \in RuleNames, scheduleInMinutes \in Schedules :
          CASE scheduleInMinutes < 0 ->
                 /\ error' = "NegativeDuration"
                 /\ UNCHANGED <<children, rules>>
            [] scheduleInMinutes = 0 ->
                 /\ error' = "DurationCannotBeZero"
                 /\ UNCHANGED <<children, rules>>
            [] scheduleInMinutes > 0 /\ RuleId(name) \in children ->
                 /\ error' = "DuplicateConstructId"
                 /\ UNCHANGED <<children, rules>>
            [] scheduleInMinutes > 0 /\ RuleId(name) \notin children
                                     /\ stateMachine = NoMachine ->
                 /\ error' = "TypeError"
                 /\ children' = children \cup {RuleId(name)}
                 /\ rules' = Put(rules, name, "none")
            [] OTHER ->
                 /\ error' = "none"
                 /\ children' = children \cup {RuleId(name)}
                 /\ rules' = Put(rules, name, TriggerTarget(stateMachine))
    /\ UNCHANGED <<fnRegistry, pc, idx, items, states, localChain, chainLink,
                   stateMachine, exec, table, thisChain, machines>>

Next ==
    \/ Construct
    \/ ProcessDirect
    \/ ProcessSingleRun
    \/ FinishBuild
    \/ RegisterStateMachine
    \/ StartExecution
    \/ StepPass
    \/ StepGetItem
    \/ StepChoice
    \/ StepInvoke

Spec == Init /\ [][Next]_vars

\* the operations a caller has on the stack: construction, then any sequence
\* of the public methods
LifecycleNext ==
    \/ Construct
    \/ ProcessDirect
    \/ ProcessSingleRun
    \/ FinishBuild
    \/ RegisterStateMachine
    \/ ExtendChain
    \/ StartReprocess
    \/ FinishReprocess
    \/ RegisterTrigger

LifecycleSpec == Init /\ [][LifecycleNext]_vars

\* ------------------------------------------------- reading a built plan
Succ(id) ==
    ({states[id].next, states[id].otherwise}
        \cup {states[id].when[k].target : k \in 1..Len(states[id].when)})
    \ {NoState}

Preds(id) == {j \in DOMAIN states : id \in Succ(j)}

RECURSIVE Reach(_, _)
Reach(frontier, seen) ==
    IF frontier = {} THEN seen
    ELSE LET new == (UNION {Succ(j) : j \in frontier}) \ seen
         IN  Reach(new, seen \cup new)

\* every state of the plan that starts at the chain's start state
PlanStates(chain) == Reach({chain.startState}, {chain.startState})

\* the states chained one after the other from `id` on
RECURSIVE Walk(_)
Walk(id) == IF id = NoState THEN <<>> ELSE <<id>> \o Walk(states[id].next)

TopLevel(chain) == Walk(chain.startState)

\* the top-level segments of a path: an invoke state is the segment of a
\* direct unit, a check state followed by its choice is the segment of a
\* guarded unit
RECURSIVE Segments(_)
Segments(p) ==
    IF p = <<>> THEN <<>>
    ELSE LET s == states[Head(p)]
         IN  CASE s.kind = "LambdaInvoke" ->
                    <<[fn |-> s.fn, repeat |-> FALSE]>> \o Segments(Tail(p))
               [] s.kind = "DynamoGetItem" /\ Len(p) >= 2
                                           /\ p[2] = ChoiceId(s.fn) ->
                    <<[fn |-> s.fn, repeat |-> TRUE]>> \o Segments(Tail(Tail(p)))
               [] OTHER ->
                    <<[fn |-> s.fn, repeat |-> s.kind]>> \o Segments(Tail(p))

Built == pc = "built"
Units == {fnRegistry[i] : i \in 1..Len(fnRegistry)}
Guarded(f) == [fn |-> f, repeat |-> TRUE] \in Units
Direct(f) == [fn |-> f, repeat |-> FALSE] \in Units
DistinctFns == \A i, j \in 1..Len(fnRegistry) :
                   fnRegistry[i].fn = fnRegistry[j].fn => i = j

\* ---------------------------------------------------------------- claims

\* C1: the top-level segments of the chain are the registry's units, one
\* segment per unit, in insertion order, each unit's invoke state occurring
\* once in the plan; during the fold the chain holds the units processed so
\* far, in order.
C1_SegmentsFollowRegistry ==
    /\ pc = "building" =>
          Segments(Tail(TopLevel(localChain))) = SubSeq(fnRegistry, 1, idx - 1)
    /\ Built =>
          /\ Segments(Tail(TopLevel(chainLink))) = fnRegistry
          /\ \A i \in 1..Len(fnRegistry) :
                Cardinality({j \in PlanStates(chainLink) :
                                /\ states[j].kind = "LambdaInvoke"
                                /\ states[j].fn = fnRegistry[i].fn}) = 1

C1_Witness ==
    /\ Built
    /\ Len(fnRegistry) = 3
    /\ fnRegistry[3].repeat
    /\ ~fnRegistry[1].repeat

\* C2 (as claimed): for every registry of distinctly named functions the
\* constructor returns a plan: it does not throw, and the plan starts at the
\* initial step and ends with the steps of the last registered unit.
C2_BuildReturnsPlan ==
    /\ (pc = "failed" /\ error = "CannotAddToChain") => ~DistinctFns
    /\ (Built /\ fnRegistry # <<>>) =>
          /\ chainLink.startState = InitialId
          /\ states[chainLink.lastAdded].fn = fnRegistry[Len(fnRegistry)].fn

\* C3: a guarded unit has a check state whose successor is the unit's choice,
\* the choice has exactly the two outcomes skip and invoke, the invoke state
\* is entered from that choice only and the choice from that check only; a
\* run is at the invoke state only after the check read the unit's record.
C3_GuardedShape ==
    Built =>
      \A f \in Fns : Guarded(f) =>
          /\ {CheckId(f), ChoiceId(f), SkipId(f), InvokeId(f)}
                \subseteq PlanStates(chainLink)
          /\ states[CheckId(f)].kind = "DynamoGetItem"
          /\ states[CheckId(f)].key = <<f, Tenant>>
          /\ Succ(CheckId(f)) = {ChoiceId(f)}
          /\ Len(states[ChoiceId(f)].when) = 1
          /\ states[ChoiceId(f)].when[1].target = SkipId(f)
          /\ states[ChoiceId(f)].otherwise = InvokeId(f)
          /\ Succ(ChoiceId(f)) = {SkipId(f), InvokeId(f)}
          /\ Preds(InvokeId(f)) = {ChoiceId(f)}
          /\ Preds(ChoiceId(f)) = {CheckId(f)}
          /\ (exec.status = "running" /\ exec.cur = InvokeId(f)) =>
                /\ exec.prev = ChoiceId(f)
                /\ exec.dynamodbResult = table[f]

C3_Witness ==
    /\ Built
    /\ \E f \in Fns :
          /\ Guarded(f)
          /\ exec.status = "running"
          /\ exec.cur = InvokeId(f)
          /\ Len(fnRegistry) >= 2

C5_RecordedSuccessSkips ==
    (Built /\ exec.status # "idle") =>
      \A f \in Fns : (Guarded(f) /\ table[f] = SuccessSentinel) =>
          /\ exec.invoked[f] = 0
          /\ exec.cur # InvokeId(f)
          /\ exec.prev # InvokeId(f)

C5_Witness ==
    \E f \in Fns :
        /\ Guarded(f)
        /\ table[f] = SuccessSentinel
        /\ exec.status = "succeeded"
        /\ exec.prev = SkipId(f)

\* C6 (as claimed): in a run of the built plan, a guarded unit without a
\* record is handled like one that did not succeed: the choice raises no
\* error and a run that ends successfully has invoked the unit exactly once.
C6_AbsentRecordInvokes ==
    Built =>
      \A f \in Fns : (Guarded(f) /\ table[f] = "none") =>
          /\ exec.status = "failed" => exec.prev # ChoiceId(f)
          /\ exec.status = "succeeded" => exec.invoked[f] = 1

\* C7: a run is at a skip state only coming from the unit's choice, right
\* after the unit's check read the payload "true"; a skip state is entered
\* by nothing but the rule of its unit's choice.
C7_SkipOnlyAfterSuccess ==
    Built =>
      \A f \in Fns :
          /\ SkipId(f) \in DOMAIN states =>
                /\ Preds(SkipId(f)) = {ChoiceId(f)}
                /\ states[ChoiceId(f)].otherwise # SkipId(f)
                /\ \A k \in 1..Len(states[ChoiceId(f)].when) :
                      states[ChoiceId(f)].when[k].equals = SuccessSentinel
                /\ Preds(ChoiceId(f)) = {CheckId(f)}
          /\ (exec.cur = SkipId(f) \/ exec.prev = SkipId(f)) =>
                /\ exec.dynamodbResult = SuccessSentinel
                /\ table[f] = SuccessSentinel
          /\ exec.cur = SkipId(f) => exec.prev = ChoiceId(f)

C7_Witness ==
    \E f \in Fns :
        /\ exec.status = "running"
        /\ exec.cur = SkipId(f)
        /\ Len(fnRegistry) >= 2

\* C8 (as claimed): no state machine is registered with a timeout <= 0.
C8_NonPositiveTimeoutRejected ==
    stateMachine # NoMachine => stateMachine.timeout > 0

\* C9 (as claimed): the registered state machine holds, for every registry
\* entry, an invoke task and a status-check task.
C9_EveryEntryHasInvokeAndCheck ==
    stateMachine # NoMachine =>
      \A i \in 1..Len(fnRegistry) :
          /\ InvokeId(fnRegistry[i].fn) \in PlanStates(chainLink)
          /\ CheckId(fnRegistry[i].fn) \in PlanStates(chainLink)

\* C10: a state machine registered with a positive timeout t has
\* TimeoutSeconds = 60 * t.
C10_TimeoutInMinutes ==
    (stateMachine # NoMachine /\ stateMachine.timeout > 0) =>
        stateMachine.timeoutSeconds = 60 * stateMachine.timeout

C10_Witness ==
    /\ stateMachine # NoMachine
    /\ stateMachine.timeout = TestTimeout
    /\ stateMachine.timeoutSeconds = 300

C12_SecondBuildIndependent ==
    [][(pc = "rebuilding" /\ pc' = "built") =>
          /\ error' = "none"
          /\ (Segments(Tail(TopLevel(thisChain))))' = fnRegistry
          /\ (RenderGraph(states, chainLink.startState))'
                = RenderGraph(states, chainLink.startState)]_vars

\* C13: a rule gets its target when registerTrigger creates it and keeps it;
\* the target is this.stateMachine, a machine registerStateMachine created
\* before and the one created last; without such a machine registerTrigger
\* throws and the rule has no target.
C13_TriggerTargetsRegisteredMachine ==
    [][/\ \A r \in RuleNames :
            /\ (r \notin DOMAIN rules /\ r \in DOMAIN rules') =>
                  IF stateMachine = NoMachine
                  THEN rules'[r] = "none" /\ error' = "TypeError"
                  ELSE /\ rules'[r] = stateMachine.name
                       /\ rules'[r] \in DOMAIN machines
                       /\ machines[rules'[r]] = stateMachine
                       /\ error' = "none"
            /\ r \in DOMAIN rules => (r \in DOMAIN rules' /\ rules'[r] = rules[r])
       /\ \A n \in MachineNames :
            (n \notin DOMAIN machines /\ n \in DOMAIN machines') =>
                stateMachine' = machines'[n]]_vars

\* two machines are registered, one rule was created before any machine and
\* has no target, the other targets the machine registered last
C13_Witness ==
    /\ Cardinality(DOMAIN machines) = 2
    /\ \E r, q \in DOMAIN rules :
          /\ rules[r] = stateMachine.name
          /\ rules[q] = "none"

====
